---- MODULE Spec2Model ----
(***************************************************************************)
(* Model of go-controller/pkg/kube/annotator.go: the node, pod and         *)
(* namespace annotators, which buffer annotation changes (Set,             *)
(* SetWithFailureHandler, Delete) and flush them to the store in Run.      *)
(***************************************************************************)
EXTENDS Bags, FiniteSets, Integers, Sequences, TLC

(***************************************************************************)
(* Finite input domains                                                    *)
(***************************************************************************)

Keys == {"a", "b"}
Strings == {"", "1"}

\* the zero value of a FailureHandlerFn and the handlers a caller passes
NoFn == "nil"
FailFns == {"f1"}

\* the nil error, and the errors the store client may return
NoErr == "nil"
StoreErrs == {"e1", "e2"}
MarshalErr == "failed to marshal"
Panic == "panic"

(***************************************************************************)
(* interface{} values.  kind is the dynamic type: nil, string, a named     *)
(* type whose underlying kind is string, int, or chan.                     *)
(***************************************************************************)
NilVal == [kind |-> "nil", s |-> "", n |-> 0]
StringVal(s) == [kind |-> "string", s |-> s, n |-> 0]
NamedStringVal(s) == [kind |-> "named", s |-> s, n |-> 0]
IntVal(n) == [kind |-> "int", s |-> "", n |-> n]
ChanVal == [kind |-> "chan", s |-> "", n |-> 0]

Vals ==
  {NilVal, StringVal(""), StringVal("1"), NamedStringVal("1"), IntVal(1), ChanVal}

\* reflect.TypeOf(val).Kind()
ReflectKind(val) ==
  IF val.kind \in {"string", "named"} THEN "string" ELSE val.kind

\* val.(string): succeeds only when the dynamic type is exactly string
AssertStringOk(val) == val.kind = "string"

\* json.Marshal: ok is FALSE when the value cannot be encoded
Marshal(val) ==
  IF val.kind = "int"
  THEN [ok |-> TRUE, bytes |-> ToString(val.n)]
  ELSE [ok |-> FALSE, bytes |-> ""]

(***************************************************************************)
(* Go maps as functions over a subset of Keys                              *)
(***************************************************************************)
EmptyMap == [k \in {} |-> NilVal]
Put(m, k, v) == [x \in DOMAIN m \cup {k} |-> IF x = k THEN v ELSE m[x]]


\* existing, ok := m[k] on a map[string]string (a nil or empty map yields "", false)
MapGet(m, k) ==
  IF k \in DOMAIN m THEN [existing |-> m[k], ok |-> TRUE]
  ELSE [existing |-> "", ok |-> FALSE]

(***************************************************************************)
(* nodeAnnotator                                                           *)
(***************************************************************************)
\* SetWithFailureHandler on the changes map chg.  ret is the returned error,
\* or Panic when the type assertion val.(string) fails (the deferred Unlock
\* still runs and the map is left as it was).
nodeAnnotator_SetWithFailureHandler(chg, key, val, failFn) ==
  IF val = NilVal
  THEN [changes |-> Put(chg, key, NilVal), ret |-> NoErr]
  ELSE IF ReflectKind(val) = "string"
  THEN IF AssertStringOk(val)
       THEN [changes |-> Put(chg, key, StringVal(val.s)), ret |-> NoErr]
       ELSE [changes |-> chg, ret |-> Panic]
  ELSE LET m == Marshal(val) IN
       IF ~m.ok
       THEN [changes |-> chg, ret |-> MarshalErr]
       ELSE [changes |-> Put(chg, key, StringVal(m.bytes)), ret |-> NoErr]

nodeAnnotator_Set(chg, key, val) ==
  nodeAnnotator_SetWithFailureHandler(chg, key, val, NoFn)

\* mutant: Delete removes the pending entry instead of recording nil
Mut_nodeAnnotator_Delete(chg, key) == [x \in DOMAIN chg \ {key} |-> chg[x]]

nodeAnnotator_Delete(chg, key) == Put(chg, key, NilVal)

\* mutant: Run forgets the pending changes once the store accepted them
Mut_nodeAnnotator_Run(chg, storeResult) ==
  IF Cardinality(DOMAIN chg) = 0
  THEN [changes |-> chg, storeCalls |-> 0, sent |-> EmptyMap,
        ret |-> NoErr, invoked |-> EmptyBag]
  ELSE [changes |-> IF storeResult = NoErr THEN EmptyMap ELSE chg,
        storeCalls |-> 1, sent |-> chg,
        ret |-> storeResult, invoked |-> EmptyBag]

\* Run; storeResult is what kube.SetAnnotationsOnNode returns if it is called
nodeAnnotator_Run(chg, storeResult) ==
  IF Cardinality(DOMAIN chg) = 0
  THEN [changes |-> chg, storeCalls |-> 0, sent |-> EmptyMap,
        ret |-> NoErr, invoked |-> EmptyBag]
  ELSE [changes |-> chg, storeCalls |-> 1, sent |-> chg,
        ret |-> storeResult, invoked |-> EmptyBag]

(***************************************************************************)
(* podAnnotator                                                            *)
(***************************************************************************)
\* mutant: a value that is not a string is stored as it is, not serialized
Mut_podAnnotator_SetWithFailureHandler(chg, key, val, failFn) ==
  IF val = NilVal
  THEN [changes |-> Put(chg, key, NilVal), ret |-> NoErr]
  ELSE IF ReflectKind(val) = "string"
  THEN IF AssertStringOk(val)
       THEN [changes |-> Put(chg, key, StringVal(val.s)), ret |-> NoErr]
       ELSE [changes |-> chg, ret |-> Panic]
  ELSE LET m == Marshal(val) IN
       IF ~m.ok
       THEN [changes |-> chg, ret |-> MarshalErr]
       ELSE [changes |-> Put(chg, key, val), ret |-> NoErr]

podAnnotator_SetWithFailureHandler(chg, key, val, failFn) ==
  IF val = NilVal
  THEN [changes |-> Put(chg, key, NilVal), ret |-> NoErr]
  ELSE IF ReflectKind(val) = "string"
  THEN IF AssertStringOk(val)
       THEN [changes |-> Put(chg, key, StringVal(val.s)), ret |-> NoErr]
       ELSE [changes |-> chg, ret |-> Panic]
  ELSE LET m == Marshal(val) IN
       IF ~m.ok
       THEN [changes |-> chg, ret |-> MarshalErr]
       ELSE [changes |-> Put(chg, key, StringVal(m.bytes)), ret |-> NoErr]

podAnnotator_Set(chg, key, val) ==
  podAnnotator_SetWithFailureHandler(chg, key, val, NoFn)

podAnnotator_Delete(chg, key) == Put(chg, key, NilVal)

\* mutant: Run without the early return on an empty changes map
Mut_podAnnotator_Run(chg, storeResult) ==
  [changes |-> chg, storeCalls |-> 1, sent |-> chg,
   ret |-> storeResult, invoked |-> EmptyBag]

\* Run; storeResult is what kube.SetAnnotationsOnPod returns if it is called
podAnnotator_Run(chg, storeResult) ==
  IF Cardinality(DOMAIN chg) = 0
  THEN [changes |-> chg, storeCalls |-> 0, sent |-> EmptyMap,
        ret |-> NoErr, invoked |-> EmptyBag]
  ELSE [changes |-> chg, storeCalls |-> 1, sent |-> chg,
        ret |-> storeResult, invoked |-> EmptyBag]

(***************************************************************************)
(* namespaceAnnotator                                                      *)
(***************************************************************************)
\* the *kapi.Namespace handed to NewNamespaceAnnotator and to the handlers
NamespaceObj == "namespace"

\* the action struct
Action(key, val, origVal, failFn) ==
  [key |-> key, val |-> val, origVal |-> origVal, failFn |-> failFn]

\* mutant: the action is stored before the value is coerced, so a marshal
\* failure leaves an action with an empty val behind
Mut_namespaceAnnotator_SetWithFailureHandler(chg, key, val, failFn) ==
  IF val # NilVal
  THEN IF ReflectKind(val) = "string"
       THEN IF AssertStringOk(val)
            THEN [changes |-> Put(chg, key, Action(key, val.s, val, failFn)),
                  ret |-> NoErr]
            ELSE [changes |-> chg, ret |-> Panic]
       ELSE LET m == Marshal(val) IN
            IF ~m.ok
            THEN [changes |-> Put(chg, key, Action(key, "", val, failFn)),
                  ret |-> MarshalErr]
            ELSE [changes |-> Put(chg, key, Action(key, m.bytes, val, failFn)),
                  ret |-> NoErr]
  ELSE [changes |-> Put(chg, key, Action(key, "", val, failFn)), ret |-> NoErr]

\* SetWithFailureHandler: the action is built, and the value coerced, before
\* the lock is taken
namespaceAnnotator_SetWithFailureHandler(chg, key, val, failFn) ==
  IF val # NilVal
  THEN IF ReflectKind(val) = "string"
       THEN IF AssertStringOk(val)
            THEN [changes |-> Put(chg, key, Action(key, val.s, val, failFn)),
                  ret |-> NoErr]
            ELSE [changes |-> chg, ret |-> Panic]
       ELSE LET m == Marshal(val) IN
            IF ~m.ok
            THEN [changes |-> chg, ret |-> MarshalErr]
            ELSE [changes |-> Put(chg, key, Action(key, m.bytes, val, failFn)),
                  ret |-> NoErr]
  ELSE [changes |-> Put(chg, key, Action(key, "", val, failFn)), ret |-> NoErr]

namespaceAnnotator_Set(chg, key, val) ==
  namespaceAnnotator_SetWithFailureHandler(chg, key, val, NoFn)

\* mutant: Delete drops the pending action instead of recording a deletion
Mut_namespaceAnnotator_Delete(chg, key) == [x \in DOMAIN chg \ {key} |-> chg[x]]

\* &action{key: key}: every other field has its zero value
namespaceAnnotator_Delete(chg, key) ==
  Put(chg, key, Action(key, "", NilVal, NoFn))

\* mutant: the comparison without the presence test
Mut_NeedsUpdate_NoOk(obs, k, act) == MapGet(obs, k).existing # act.val

\* mutant: no comparison with the observed annotations at all
Mut_NeedsUpdate_Always(obs, k, act) == TRUE

\* the condition under which Run copies a pending change to the outgoing map
NeedsUpdate(obs, k, act) ==
  LET g == MapGet(obs, k) IN g.existing # act.val \/ ~g.ok

\* the annotations map Run builds from the changes and the observed namespace
OutgoingAnnotations(chg, obs) ==
  [k \in {x \in DOMAIN chg : NeedsUpdate(obs, x, chg[x])} |->
     IF chg[k].origVal # NilVal THEN StringVal(chg[k].val) ELSE StringVal("")]

\* mutant: the handlers are given the coerced string instead of origVal
RECURSIVE Mut_FailureHandlerLoop(_, _)
Mut_FailureHandlerLoop(chg, todo) ==
  IF todo = {} THEN EmptyBag
  ELSE LET k == CHOOSE x \in todo : TRUE
           act == chg[k]
           rest == Mut_FailureHandlerLoop(chg, todo \ {k})
       IN IF act.failFn # NoFn
          THEN rest (+) SetToBag({[fn |-> act.failFn, obj |-> NamespaceObj,
                                   key |-> act.key, val |-> StringVal(act.val)]})
          ELSE rest

\* the loop over na.changes that lets failure handlers clean up; map order
\* is unspecified, so the invocations are collected in a bag
RECURSIVE FailureHandlerLoop(_, _)
FailureHandlerLoop(chg, todo) ==
  IF todo = {} THEN EmptyBag
  ELSE LET k == CHOOSE x \in todo : TRUE
           act == chg[k]
           rest == FailureHandlerLoop(chg, todo \ {k})
       IN IF act.failFn # NoFn
          THEN rest (+) SetToBag({[fn |-> act.failFn, obj |-> NamespaceObj,
                                   key |-> act.key, val |-> act.origVal]})
          ELSE rest

\* mutant: Run without the early return on an empty annotations map
Mut_namespaceAnnotator_Run_NoEarlyReturn(chg, obs, storeResult) ==
  LET annotations == OutgoingAnnotations(chg, obs) IN
  [changes |-> chg, storeCalls |-> 1, sent |-> annotations,
   ret |-> storeResult,
   invoked |-> IF storeResult # NoErr
               THEN FailureHandlerLoop(chg, DOMAIN chg)
               ELSE EmptyBag]

\* mutant: only the handlers of the changes that were sent are called
Mut_namespaceAnnotator_Run_SentOnly(chg, obs, storeResult) ==
  LET annotations == OutgoingAnnotations(chg, obs) IN
  IF Cardinality(DOMAIN annotations) = 0
  THEN [changes |-> chg, storeCalls |-> 0, sent |-> EmptyMap,
        ret |-> NoErr, invoked |-> EmptyBag]
  ELSE [changes |-> chg, storeCalls |-> 1, sent |-> annotations,
        ret |-> storeResult,
        invoked |-> IF storeResult # NoErr
                    THEN FailureHandlerLoop(chg, DOMAIN annotations)
                    ELSE EmptyBag]

\* mutant: Run returns nil once the failure handlers have cleaned up
Mut_namespaceAnnotator_Run_Swallow(chg, obs, storeResult) ==
  LET annotations == OutgoingAnnotations(chg, obs) IN
  IF Cardinality(DOMAIN annotations) = 0
  THEN [changes |-> chg, storeCalls |-> 0, sent |-> EmptyMap,
        ret |-> NoErr, invoked |-> EmptyBag]
  ELSE [changes |-> chg, storeCalls |-> 1, sent |-> annotations,
        ret |-> NoErr,
        invoked |-> IF storeResult # NoErr
                    THEN FailureHandlerLoop(chg, DOMAIN chg)
                    ELSE EmptyBag]

\* mutant: Run calls the failure handlers whatever the store returned
Mut_namespaceAnnotator_Run_AlwaysNotify(chg, obs, storeResult) ==
  LET annotations == OutgoingAnnotations(chg, obs) IN
  IF Cardinality(DOMAIN annotations) = 0
  THEN [changes |-> chg, storeCalls |-> 0, sent |-> EmptyMap,
        ret |-> NoErr, invoked |-> EmptyBag]
  ELSE [changes |-> chg, storeCalls |-> 1, sent |-> annotations,
        ret |-> storeResult,
        invoked |-> FailureHandlerLoop(chg, DOMAIN chg)]

\* Run; storeResult is what kube.SetAnnotationsOnNamespace returns if called
namespaceAnnotator_Run(chg, obs, storeResult) ==
  LET annotations == OutgoingAnnotations(chg, obs) IN
  IF Cardinality(DOMAIN annotations) = 0
  THEN [changes |-> chg, storeCalls |-> 0, sent |-> EmptyMap,
        ret |-> NoErr, invoked |-> EmptyBag]
  ELSE [changes |-> chg, storeCalls |-> 1, sent |-> annotations,
        ret |-> storeResult,
        invoked |-> IF storeResult # NoErr
                    THEN FailureHandlerLoop(chg, DOMAIN chg)
                    ELSE EmptyBag]

(***************************************************************************)
(* State                                                                   *)
(*   variant     which annotator was constructed                           *)
(*   observed    namespace.Annotations of the object given at construction *)
(*   changes     the pending-changes map of the instance                   *)
(*   op, arg     the last call made on the instance and its value argument *)
(*   ret         what that call returned (or Panic)                        *)
(*   storeCalls, sent, storeErr                                            *)
(*               the number of store calls that call made, the mapping it  *)
(*               passed and the error the store returned                   *)
(*   invoked     the failure-handler invocations made by that call         *)
(*   last        history: the last successful operation on each key        *)
(*   firstReg    history: the (key, value, handler) triple of the earliest *)
(*               successful SetWithFailureHandler call with a non-nil      *)
(*               handler, NoReg before there is one (kept by the           *)
(*               sequential specification only)                            *)
(*   lock        the goroutine holding the instance's sync.Mutex           *)
(*   pc, frame   where each goroutine is in the call it makes, and the     *)
(*               arguments and locals of that call                         *)
(*   calls       history: the calls each goroutine has made                *)
(***************************************************************************)
VARIABLES variant, observed, changes, op, arg, ret, storeCalls, sent, storeErr,
          invoked, last, firstReg, lock, pc, frame, calls

vars == <<variant, observed, changes, op, arg, ret, storeCalls, sent, storeErr,
          invoked, last, firstReg, lock, pc, frame, calls>>

\* the goroutines that share the instance, and the unlocked mutex
Threads == {"t1", "t2"}
NoThread == "none"

\* the frame of a goroutine that is in no call
IdleFrame ==
  [op |-> "none", key |-> "", val |-> NilVal, fn |-> NoFn,
   m |-> EmptyMap, batch |-> EmptyMap, nested |-> FALSE]

Variants == {"node", "pod", "namespace"}

NoOp == [op |-> "none", val |-> NilVal, fn |-> NoFn]
SetOp(val, fn) == [op |-> "Set", val |-> val, fn |-> fn]
DeleteOp == [op |-> "Delete", val |-> NilVal, fn |-> NoFn]
NoReg == [key |-> "", val |-> NilVal, fn |-> NoFn]

\* the observed annotation sets a namespace object may carry
ObservedMaps == UNION {[S -> Strings] : S \in SUBSET Keys}

\* NewNodeAnnotator, NewPodAnnotator, NewNamespaceAnnotator
Init ==
  /\ variant \in Variants
  /\ observed \in IF variant = "namespace" THEN ObservedMaps ELSE {[k \in {} |-> ""]}
  /\ changes = EmptyMap
  /\ op = "New"
  /\ arg = NilVal
  /\ ret = NoErr
  /\ sent = EmptyMap
  /\ storeErr = NoErr
  /\ invoked = EmptyBag
  /\ storeCalls = 0
  /\ last = [k \in Keys |-> NoOp]
  /\ firstReg = NoReg
  /\ lock = NoThread
  /\ pc = [t \in Threads |-> "idle"]
  /\ frame = [t \in Threads |-> IdleFrame]
  /\ calls = [t \in Threads |-> 0]

\* a Set/SetWithFailureHandler call that produced result r
SetStep(name, k, val, fn, r) ==
  LET newReg == IF r.ret = NoErr /\ fn # NoFn /\ firstReg = NoReg
                THEN [key |-> k, val |-> val, fn |-> fn]
                ELSE firstReg
  IN /\ changes' = r.changes
     /\ op' = name
     /\ arg' = val
     /\ ret' = r.ret
     /\ storeCalls' = 0
     /\ sent' = EmptyMap
     /\ storeErr' = NoErr
     /\ invoked' = EmptyBag
     /\ last' = IF r.ret = NoErr THEN [last EXCEPT ![k] = SetOp(val, fn)] ELSE last
     /\ firstReg' = newReg
     /\ UNCHANGED <<variant, observed, lock, pc, frame, calls>>

\* a Delete call that left the map chg
DeleteStep(k, chg) ==
  /\ changes' = chg
  /\ op' = "Delete"
  /\ arg' = NilVal
  /\ ret' = NoErr
  /\ storeCalls' = 0
  /\ sent' = EmptyMap
  /\ storeErr' = NoErr
  /\ invoked' = EmptyBag
  /\ last' = [last EXCEPT ![k] = DeleteOp]
  /\ UNCHANGED <<variant, observed, firstReg, lock, pc, frame, calls>>

\* a Run call that produced result r when the store would answer res
RunStep(r, res) ==
  /\ changes' = r.changes
  /\ op' = "Run"
  /\ arg' = NilVal
  /\ ret' = r.ret
  /\ storeCalls' = r.storeCalls
  /\ sent' = r.sent
  /\ storeErr' = IF r.storeCalls > 0 THEN res ELSE NoErr
  /\ invoked' = r.invoked
  /\ UNCHANGED <<variant, observed, last, firstReg, lock, pc, frame, calls>>

NodeSet ==
  /\ variant = "node"
  /\ \E k \in Keys, val \in Vals :
       SetStep("Set", k, val, NoFn, nodeAnnotator_Set(changes, k, val))

NodeSetWithFailureHandler ==
  /\ variant = "node"
  /\ \E k \in Keys, val \in Vals, fn \in FailFns \cup {NoFn} :
       SetStep("SetWithFailureHandler", k, val, fn,
               nodeAnnotator_SetWithFailureHandler(changes, k, val, fn))

NodeDelete ==
  /\ variant = "node"
  /\ \E k \in Keys : DeleteStep(k, nodeAnnotator_Delete(changes, k))

NodeRun ==
  /\ variant = "node"
  /\ \E res \in {NoErr} \cup StoreErrs : RunStep(nodeAnnotator_Run(changes, res), res)

PodSet ==
  /\ variant = "pod"
  /\ \E k \in Keys, val \in Vals :
       SetStep("Set", k, val, NoFn, podAnnotator_Set(changes, k, val))

PodSetWithFailureHandler ==
  /\ variant = "pod"
  /\ \E k \in Keys, val \in Vals, fn \in FailFns \cup {NoFn} :
       SetStep("SetWithFailureHandler", k, val, fn,
               podAnnotator_SetWithFailureHandler(changes, k, val, fn))

PodDelete ==
  /\ variant = "pod"
  /\ \E k \in Keys : DeleteStep(k, podAnnotator_Delete(changes, k))

PodRun ==
  /\ variant = "pod"
  /\ \E res \in {NoErr} \cup StoreErrs : RunStep(podAnnotator_Run(changes, res), res)

NamespaceSet ==
  /\ variant = "namespace"
  /\ \E k \in Keys, val \in Vals :
       SetStep("Set", k, val, NoFn, namespaceAnnotator_Set(changes, k, val))

NamespaceSetWithFailureHandler ==
  /\ variant = "namespace"
  /\ \E k \in Keys, val \in Vals, fn \in FailFns \cup {NoFn} :
       SetStep("SetWithFailureHandler", k, val, fn,
               namespaceAnnotator_SetWithFailureHandler(changes, k, val, fn))

NamespaceDelete ==
  /\ variant = "namespace"
  /\ \E k \in Keys : DeleteStep(k, namespaceAnnotator_Delete(changes, k))

NamespaceRun ==
  /\ variant = "namespace"
  /\ \E res \in {NoErr} \cup StoreErrs :
       RunStep(namespaceAnnotator_Run(changes, observed, res), res)

Next ==
  \/ NodeSet
  \/ NodeSetWithFailureHandler
  \/ NodeDelete
  \/ NodeRun
  \/ PodSet
  \/ PodSetWithFailureHandler
  \/ PodDelete
  \/ PodRun
  \/ NamespaceSet
  \/ NamespaceSetWithFailureHandler
  \/ NamespaceDelete
  \/ NamespaceRun

Spec == Init /\ [][Next]_vars

(***************************************************************************)
(* Goroutines sharing one instance.  Each call is a sequence of steps:     *)
(* the call itself, Lock, the body under the lock, and the deferred        *)
(* Unlock.  A map assignment is a load of the map followed by the write of *)
(* the updated map, which is what makes unsynchronized writers lose        *)
(* entries.                                                                *)
(***************************************************************************)
\* the methods of the annotator that was constructed
VariantSet(chg, k, val, fn) ==
  CASE variant = "node" -> nodeAnnotator_SetWithFailureHandler(chg, k, val, fn)
    [] variant = "pod" -> podAnnotator_SetWithFailureHandler(chg, k, val, fn)
    [] OTHER -> namespaceAnnotator_SetWithFailureHandler(chg, k, val, fn)
VariantDelete(chg, k) ==
  CASE variant = "node" -> nodeAnnotator_Delete(chg, k)
    [] variant = "pod" -> podAnnotator_Delete(chg, k)
    [] OTHER -> namespaceAnnotator_Delete(chg, k)
VariantRun(chg, res) ==
  CASE variant = "node" -> nodeAnnotator_Run(chg, res)
    [] variant = "pod" -> podAnnotator_Run(chg, res)
    [] OTHER -> namespaceAnnotator_Run(chg, observed, res)

\* mutant: a lock that admits a goroutine while another holds it
Mut_CanLock(lk, t) == TRUE

\* sync.Mutex.Lock returns only when nobody holds the mutex, the caller
\* included
CanLock(lk, t) == lk = NoThread

\* the values and the observed annotations the goroutines are run with
ConcVals == {StringVal("1"), NamedStringVal("1"), ChanVal}
ConcObserved == {[k \in {} |-> ""], [k \in {"a"} |-> "1"]}

\* goroutine t enters a call with frame f and reaches its Lock
Enter(t, f) ==
  /\ pc[t] = "idle"
  /\ pc' = [pc EXCEPT ![t] = "lock"]
  /\ frame' = [frame EXCEPT ![t] = f]

SetFrame(k, val, fn) ==
  [IdleFrame EXCEPT !.op = "SetWithFailureHandler", !.key = k, !.val = val, !.fn = fn]

\* a goroutine calls Set or SetWithFailureHandler; the namespace variant
\* coerces the value first and returns without locking when that fails
CallSetWithFailureHandler ==
  /\ \E t \in Threads, k \in Keys, val \in ConcVals, fn \in FailFns \cup {NoFn} :
       /\ pc[t] = "idle"
       /\ IF variant = "namespace" /\ VariantSet(changes, k, val, fn).ret # NoErr
          THEN UNCHANGED <<pc, frame>>
          ELSE Enter(t, SetFrame(k, val, fn))
  /\ UNCHANGED <<variant, observed, changes, op, arg, ret, storeCalls, sent,
                 storeErr, invoked, last, firstReg, lock, calls>>

CallDelete ==
  /\ \E t \in Threads, k \in Keys :
       Enter(t, [IdleFrame EXCEPT !.op = "Delete", !.key = k])
  /\ UNCHANGED <<variant, observed, changes, op, arg, ret, storeCalls, sent,
                 storeErr, invoked, last, firstReg, lock, calls>>

CallRun ==
  /\ \E t \in Threads : Enter(t, [IdleFrame EXCEPT !.op = "Run"])
  /\ UNCHANGED <<variant, observed, changes, op, arg, ret, storeCalls, sent,
                 storeErr, invoked, last, firstReg, lock, calls>>

\* Lock returns; the node and pod SetWithFailureHandler coerce the value
\* under the lock and go to the deferred Unlock when that fails or panics
AcquireLockBy(t) ==
  /\ pc[t] = "lock"
  /\ CanLock(lock, t)
  /\ lock' = t
  /\ LET f == frame[t] IN
     pc' = [pc EXCEPT ![t] =
              CASE f.op = "Run" -> "read"
                [] f.op = "Delete" -> "load"
                [] OTHER ->
                   IF VariantSet(changes, f.key, f.val, f.fn).ret # NoErr
                   THEN "unlock" ELSE "load"]
  /\ UNCHANGED <<variant, observed, changes, op, arg, ret, storeCalls, sent,
                 storeErr, invoked, last, firstReg, frame, calls>>

AcquireLock == \E t \in Threads : AcquireLockBy(t)

\* changes[key] = ..., first half: the map is read
LoadMap ==
  /\ \E t \in Threads :
       /\ pc[t] = "load"
       /\ frame' = [frame EXCEPT ![t].m = changes]
       /\ pc' = [pc EXCEPT ![t] = "assign"]
  /\ UNCHANGED <<variant, observed, changes, op, arg, ret, storeCalls, sent,
                 storeErr, invoked, last, firstReg, lock, calls>>

\* changes[key] = ..., second half: the map with the entry is written
AssignMap ==
  /\ \E t \in Threads :
       LET f == frame[t] IN
       /\ pc[t] = "assign"
       /\ changes' = IF f.op = "Delete"
                     THEN VariantDelete(f.m, f.key)
                     ELSE VariantSet(f.m, f.key, f.val, f.fn).changes
       /\ last' = [last EXCEPT ![f.key] =
                     IF f.op = "Delete" THEN DeleteOp ELSE SetOp(f.val, f.fn)]
       /\ pc' = [pc EXCEPT ![t] = "unlock"]
  /\ UNCHANGED <<variant, observed, op, arg, ret, storeCalls, sent,
                 storeErr, invoked, firstReg, lock, frame, calls>>

\* mutant: Run gives the lock back once it has read the changes, before the
\* store call
Mut_RunRead ==
  /\ \E t \in Threads :
       LET r == VariantRun(changes, NoErr) IN
       /\ pc[t] = "read"
       /\ lock' = NoThread
       /\ IF r.storeCalls = 0
          THEN /\ pc' = [pc EXCEPT ![t] = "unlock"]
               /\ UNCHANGED frame
          ELSE /\ pc' = [pc EXCEPT ![t] = "store"]
               /\ frame' = [frame EXCEPT ![t].batch = r.sent]
  /\ UNCHANGED <<variant, observed, changes, op, arg, ret, storeCalls, sent,
                 storeErr, invoked, last, firstReg, calls>>

\* Run reads the changes: the early return, or the mapping for the store
\* (the namespace variant copies it to annotations, the others pass the
\* changes map itself)
RunRead ==
  /\ \E t \in Threads :
       LET r == VariantRun(changes, NoErr) IN
       /\ pc[t] = "read"
       /\ IF r.storeCalls = 0
          THEN /\ pc' = [pc EXCEPT ![t] = "unlock"]
               /\ UNCHANGED frame
          ELSE /\ pc' = [pc EXCEPT ![t] = "store"]
               /\ frame' = [frame EXCEPT ![t].batch = r.sent]
  /\ UNCHANGED <<variant, observed, changes, op, arg, ret, storeCalls, sent,
                 storeErr, invoked, last, firstReg, lock, calls>>

\* the store call of Run returns res
RunStore ==
  /\ \E t \in Threads, res \in {NoErr} \cup StoreErrs :
       /\ pc[t] = "store"
       /\ sent' = IF variant = "namespace" THEN frame[t].batch ELSE changes
       /\ storeCalls' = 1
       /\ storeErr' = res
       /\ invoked' = EmptyBag
       /\ pc' = [pc EXCEPT ![t] =
                   IF variant = "namespace" /\ res # NoErr
                   THEN "handlers" ELSE "unlock"]
  /\ UNCHANGED <<variant, observed, changes, op, arg, ret, last, firstReg,
                 lock, frame, calls>>

\* the namespace Run lets the failure handlers clean up, under the lock:
\* either every handler returns, or one of them calls the annotator
RunHandlers ==
  /\ \E t \in Threads :
       /\ pc[t] = "handlers"
       /\ \/ /\ invoked' = FailureHandlerLoop(changes, DOMAIN changes)
             /\ pc' = [pc EXCEPT ![t] = "unlock"]
             /\ UNCHANGED frame
          \/ \E k \in DOMAIN changes,
                nop \in {"SetWithFailureHandler", "Delete", "Run"} :
               /\ changes[k].failFn # NoFn
               /\ invoked' = SetToBag({[fn |-> changes[k].failFn,
                                        obj |-> NamespaceObj, key |-> k,
                                        val |-> changes[k].origVal]})
               /\ pc' = [pc EXCEPT ![t] = "lock"]
               /\ frame' = [frame EXCEPT ![t] =
                              [IdleFrame EXCEPT !.op = nop, !.key = k,
                                                !.nested = TRUE]]
  /\ UNCHANGED <<variant, observed, changes, op, arg, ret, storeCalls, sent,
                 storeErr, last, firstReg, lock, calls>>

\* the deferred Unlock, and the return; what was observed of the store call
\* of a Run is forgotten when the Run returns
ReleaseLock ==
  /\ \E t \in Threads :
       /\ pc[t] = "unlock"
       /\ lock' = NoThread
       /\ pc' = [pc EXCEPT ![t] = "idle"]
       /\ frame' = [frame EXCEPT ![t] = IdleFrame]
       /\ IF frame[t].op = "Run"
          THEN /\ storeCalls' = 0
               /\ sent' = EmptyMap
               /\ storeErr' = NoErr
               /\ invoked' = EmptyBag
          ELSE UNCHANGED <<storeCalls, sent, storeErr, invoked>>
  /\ UNCHANGED <<variant, observed, changes, op, arg, ret, last, firstReg, calls>>

NextConc ==
  \/ CallSetWithFailureHandler
  \/ CallDelete
  \/ CallRun
  \/ AcquireLock
  \/ LoadMap
  \/ AssignMap
  \/ RunRead
  \/ RunStore
  \/ RunHandlers
  \/ ReleaseLock

\* the instance is constructed and shared by the goroutines
InitConc ==
  /\ Init
  /\ observed \in ConcObserved

SpecConc == InitConc /\ [][NextConc]_vars

\* fair scheduling: a goroutine that can take a step of its call takes it,
\* and a goroutine waiting in Lock gets the mutex if it is free again and
\* again (sync.Mutex hands the lock to starving waiters)
SpecConcFair ==
  /\ SpecConc
  /\ \A t \in Threads : SF_vars(AcquireLockBy(t))
  /\ WF_vars(LoadMap)
  /\ WF_vars(AssignMap)
  /\ WF_vars(RunRead)
  /\ WF_vars(RunStore)
  /\ WF_vars(RunHandlers)
  /\ WF_vars(ReleaseLock)

(***************************************************************************)
(* Goroutines that each call Set or SetWithFailureHandler once, on a key   *)
(* of their own, followed by one Run when all of them have returned.       *)
(***************************************************************************)
OwnKey(t) == IF t = "t1" THEN "a" ELSE "b"

DisjointSet ==
  /\ \E t \in Threads, val \in Vals, fn \in FailFns \cup {NoFn} :
       /\ pc[t] = "idle"
       /\ calls[t] = 0
       /\ calls' = [calls EXCEPT ![t] = 1]
       /\ IF variant = "namespace" /\ VariantSet(changes, OwnKey(t), val, fn).ret # NoErr
          THEN UNCHANGED <<pc, frame>>
          ELSE Enter(t, SetFrame(OwnKey(t), val, fn))
  /\ UNCHANGED <<variant, observed, changes, op, arg, ret, storeCalls, sent,
                 storeErr, invoked, last, firstReg, lock>>

RunAfterSets ==
  /\ \A u \in Threads : calls[u] = 1 /\ pc[u] = "idle"
  /\ \E t \in Threads :
       /\ Enter(t, [IdleFrame EXCEPT !.op = "Run"])
       /\ calls' = [calls EXCEPT ![t] = 2]
  /\ UNCHANGED <<variant, observed, changes, op, arg, ret, storeCalls, sent,
                 storeErr, invoked, last, firstReg, lock>>

NextDisjoint ==
  \/ DisjointSet
  \/ RunAfterSets
  \/ AcquireLock
  \/ LoadMap
  \/ AssignMap
  \/ RunRead
  \/ RunStore
  \/ RunHandlers
  \/ ReleaseLock

SpecDisjoint == Init /\ [][NextDisjoint]_vars

(***************************************************************************)
(* Properties                                                              *)
(***************************************************************************)
\* the keys some successful Set/SetWithFailureHandler/Delete touched
Touched == {k \in Keys : last[k].op # "none"}

\* an operation recorded in last is a deletion: Delete, or Set with nil
IsDeletion(o) == o.op = "Delete" \/ (o.op = "Set" /\ o.val = NilVal)

\* the string a value stands for: itself, or its serialized form
StringOf(val) == IF val.kind = "string" THEN val.s ELSE Marshal(val).bytes

\* the entry the node and pod variants hold for an operation
ExpectedEntry(o) == IF IsDeletion(o) THEN NilVal ELSE StringVal(StringOf(o.val))

\* the string the namespace variant records for an operation
RecordedString(o) == IF IsDeletion(o) THEN "" ELSE StringOf(o.val)

\* a Run of the namespace variant whose store call failed
FailedNamespaceRun ==
  variant = "namespace" /\ op = "Run" /\ storeCalls = 1 /\ storeErr # NoErr

\* the invocation of handler fn for key k and original value val
Invocation(fn, k, val) == [fn |-> fn, obj |-> NamespaceObj, key |-> k, val |-> val]

\* C1: node and pod variants: a Run after successful Set/SetWithFailureHandler/
\* Delete calls passes the store a mapping whose keys are exactly the keys
\* touched, each mapped to the value of the last operation on it (the string,
\* the serialized form, or nil after Delete or Set with nil).
C1_LastWriteWins ==
  (variant \in {"node", "pod"} /\ op = "Run") =>
    /\ (Touched # {} => storeCalls = 1)
    /\ (storeCalls = 1 =>
          /\ DOMAIN sent = Touched
          /\ \A k \in Touched : sent[k] = ExpectedEntry(last[k]))

C1_Witness ==
  /\ variant = "node" /\ op = "Run" /\ storeCalls = 1
  /\ last["a"] = SetOp(IntVal(1), NoFn)
  /\ last["b"] = DeleteOp
  /\ firstReg.key = "a"
  /\ sent["a"] = StringVal("1") /\ sent["b"] = NilVal

\* C2: every variant: while no Set/SetWithFailureHandler/Delete has succeeded,
\* no call contacts the store and every Run returns nil.
C2_EmptyRunNoStore ==
  Touched = {} => (storeCalls = 0 /\ (op = "Run" => ret = NoErr))

C2_Witness ==
  /\ variant = "pod" /\ op = "Run" /\ Touched = {}
  /\ changes = EmptyMap /\ storeCalls = 0 /\ ret = NoErr

\* C3: namespace variant: Run leaves a pending key out of the outgoing mapping
\* when its recorded value equals the value observed for that key (the key
\* being present in the observed annotations); every other pending key is
\* sent, with its recorded string after a Set with a non-nil value and with
\* the empty string after a deletion.
C3_DiffAgainstObserved ==
  (variant = "namespace" /\ op = "Run") =>
    \A k \in Touched :
      IF k \in DOMAIN observed /\ observed[k] = RecordedString(last[k])
      THEN k \notin DOMAIN sent
      ELSE /\ storeCalls = 1
           /\ k \in DOMAIN sent
           /\ sent[k] = StringVal(RecordedString(last[k]))

C3_Witness ==
  /\ variant = "namespace" /\ op = "Run" /\ storeCalls = 1
  /\ "a" \in DOMAIN observed /\ observed["a"] = "1"
  /\ last["a"] = SetOp(IntVal(1), NoFn)
  /\ "a" \notin DOMAIN sent
  /\ last["b"] = SetOp(StringVal("1"), NoFn)
  /\ "b" \notin DOMAIN observed
  /\ "b" \in DOMAIN sent

\* the state of a key in the observed annotations, and the state an operation
\* asks for: a value, or absence
ObservedState(k) ==
  IF k \in DOMAIN observed THEN [present |-> TRUE, s |-> observed[k]]
  ELSE [present |-> FALSE, s |-> ""]
RequestedState(o) ==
  IF IsDeletion(o) THEN [present |-> FALSE, s |-> ""]
  ELSE [present |-> TRUE, s |-> StringOf(o.val)]

\* C4 as stated: namespace variant: every key Run sends is one whose requested
\* final state differs from its observed state, so the deletion of a key that
\* is absent from the observed annotations is not sent.
C4_NoNoOpUpdate ==
  (variant = "namespace" /\ op = "Run") =>
    \A k \in DOMAIN sent : RequestedState(last[k]) # ObservedState(k)

\* C4 as amended: namespace variant: every key Run sends is absent from the
\* observed annotations or is observed with a string other than the recorded
\* one (the empty string for a deletion); the deletion of a key that is absent
\* from the observed annotations is sent.
C4_SentDiffersOrAbsent ==
  (variant = "namespace" /\ op = "Run") =>
    /\ \A k \in DOMAIN sent :
         k \notin DOMAIN observed \/ observed[k] # RecordedString(last[k])
    /\ \A k \in Touched :
         (IsDeletion(last[k]) /\ k \notin DOMAIN observed) =>
           (storeCalls = 1 /\ k \in DOMAIN sent)

C4_Witness ==
  /\ variant = "namespace" /\ op = "Run" /\ storeCalls = 1
  /\ last["a"] = DeleteOp
  /\ "a" \notin DOMAIN observed
  /\ "a" \in DOMAIN sent /\ sent["a"] = StringVal("")
  /\ "b" \in DOMAIN observed /\ last["b"].op = "Set" /\ "b" \in DOMAIN sent

\* C5: namespace variant: when the last operation on a key is a deletion and
\* the key is present in the observed annotations, with any value, the mapping
\* Run sends holds the key with the empty string.
C5_DeletionReachesStore ==
  (variant = "namespace" /\ op = "Run") =>
    \A k \in Touched :
      (IsDeletion(last[k]) /\ k \in DOMAIN observed) =>
        (storeCalls = 1 /\ k \in DOMAIN sent /\ sent[k] = StringVal(""))

\* a value that is neither nil nor of kind string and cannot be serialized
Unserializable(val) ==
  val # NilVal /\ ReflectKind(val) # "string" /\ ~Marshal(val).ok

\* C6: every variant: a Set or SetWithFailureHandler whose value cannot be
\* serialized returns an error and leaves the pending changes as they were.
C6_FailedSetLeavesChanges ==
  [][(op' \in {"Set", "SetWithFailureHandler"} /\ Unserializable(arg')) =>
       (ret' \notin {NoErr, Panic} /\ changes' = changes)]_vars

C6_Witness ==
  /\ variant = "namespace" /\ op = "SetWithFailureHandler"
  /\ arg = ChanVal /\ ret = MarshalErr
  /\ DOMAIN changes = Keys
  /\ \A k \in Keys : changes[k].failFn = NoFn /\ changes[k].val = "1"

\* C7: every variant: a Run that calls the store returns what the store
\* returned, nil or the store's error.
C7_RunReturnsStoreResult ==
  (op = "Run" /\ storeCalls > 0) => ret = storeErr

C7_Witness ==
  /\ FailedNamespaceRun /\ storeErr = "e2" /\ ret = "e2"
  /\ invoked # EmptyBag

\* C8: every variant: Run leaves the pending changes and the observed
\* annotations as they are, and a Run that follows a Run which called the
\* store calls it with the same mapping.
C8_RunKeepsChanges ==
  [][op' = "Run" =>
       /\ changes' = changes
       /\ observed' = observed
       /\ ((op = "Run" /\ storeCalls = 1) => (storeCalls' = 1 /\ sent' = sent))]_vars

C8_Witness ==
  /\ variant = "node" /\ op = "Run" /\ storeCalls = 1 /\ storeErr = NoErr
  /\ DOMAIN changes = Keys /\ sent = changes

\* C9 as stated: namespace variant: a handler registered by a successful
\* SetWithFailureHandler is invoked with the namespace, its key and its value
\* when a later Run's store call fails, whatever was called in between.
C9_RegisteredHandlerInvoked ==
  (FailedNamespaceRun /\ firstReg # NoReg) =>
    BagIn(Invocation(firstReg.fn, firstReg.key, firstReg.val), invoked)

\* C9 as amended: namespace variant: a handler registered by a successful
\* SetWithFailureHandler is invoked with the namespace, its key and its
\* original value when a later Run's store call fails, provided that call is
\* still the last successful operation on its key.
C9_PendingHandlerInvoked ==
  FailedNamespaceRun =>
    \A k \in Keys :
      (last[k].op = "Set" /\ last[k].fn # NoFn) =>
        BagIn(Invocation(last[k].fn, k, last[k].val), invoked)

C9_Witness ==
  /\ FailedNamespaceRun
  /\ last["a"] = SetOp(IntVal(1), "f1")
  /\ last["b"] = SetOp(NilVal, "f1")
  /\ BagIn(Invocation("f1", "a", IntVal(1)), invoked)
  /\ BagIn(Invocation("f1", "b", NilVal), invoked)

\* C10: failure handlers are invoked only by the namespace variant and only
\* in a Run whose store call returned an error.
C10_HandlersOnlyOnNamespaceFailure ==
  invoked # EmptyBag => FailedNamespaceRun

C10_Witness ==
  /\ variant = "node" /\ op = "Run" /\ storeCalls = 1 /\ storeErr = "e1"
  /\ last["a"].fn = "f1"
  /\ invoked = EmptyBag

\* what Set(k, nil) and Delete(k) make of the pending changes of the instance
SetNilResult(k) ==
  CASE variant = "node" -> nodeAnnotator_Set(changes, k, NilVal)
    [] variant = "pod" -> podAnnotator_Set(changes, k, NilVal)
    [] OTHER -> namespaceAnnotator_Set(changes, k, NilVal)
DeleteResult(k) ==
  CASE variant = "node" -> nodeAnnotator_Delete(changes, k)
    [] variant = "pod" -> podAnnotator_Delete(changes, k)
    [] OTHER -> namespaceAnnotator_Delete(changes, k)

\* C13: every variant, every reachable state of the instance and every key:
\* Set(k, nil) returns nil and leaves the instance in the very state Delete(k)
\* leaves it in, so that no later call can tell the two apart.
C13_SetNilIsDelete ==
  \A k \in Keys :
    SetNilResult(k) = [changes |-> DeleteResult(k), ret |-> NoErr]

C13_Witness ==
  /\ variant = "namespace" /\ op = "Delete"
  /\ firstReg.key = "a"
  /\ changes["a"] = Action("a", "", NilVal, NoFn)
  /\ last["b"] = SetOp(StringVal("1"), "f1")

\* whether the mapping Run builds from the recorded operations is non-empty
OutgoingNonEmpty ==
  IF variant = "namespace"
  THEN \E k \in Touched :
         ~(k \in DOMAIN observed /\ observed[k] = RecordedString(last[k]))
  ELSE Touched # {}

\* C14: the store is contacted only by Run: Set, SetWithFailureHandler and
\* Delete make no store call, and a Run makes exactly one when its outgoing
\* mapping is non-empty and none otherwise, returning nil in that case.
C14_OneStoreCallPerRun ==
  /\ (op # "Run" => storeCalls = 0)
  /\ (op = "Run" =>
        /\ storeCalls = IF OutgoingNonEmpty THEN 1 ELSE 0
        /\ (storeCalls = 0 => (ret = NoErr /\ sent = EmptyMap)))

C14_Witness ==
  /\ variant = "namespace" /\ op = "Run" /\ storeCalls = 0 /\ ret = NoErr
  /\ Touched = Keys
  /\ last["a"] = SetOp(StringVal("1"), "f1")
  /\ last["b"] = DeleteOp

\* C16: namespace variant: a Run whose store call failed invokes exactly the
\* handlers of the last operation on each key that carries one, each once and
\* with its own key and original value, whether or not the key was sent.
C16_ExactlyPendingHandlers ==
  FailedNamespaceRun =>
    invoked = SetToBag({Invocation(last[k].fn, k, last[k].val) :
                          k \in {x \in Keys : last[x].op = "Set" /\ last[x].fn # NoFn}})

C16_Witness ==
  /\ FailedNamespaceRun
  /\ last["a"] = SetOp(IntVal(1), "f1")
  /\ "a" \notin DOMAIN sent
  /\ firstReg = [key |-> "b", val |-> StringVal("1"), fn |-> "f1"]
  /\ last["b"] = DeleteOp
  /\ CopiesIn(Invocation("f1", "a", IntVal(1)), invoked) = 1
  /\ ~BagIn(Invocation("f1", "b", StringVal("1")), invoked)

\* C17: node and pod variants: every entry of the pending changes and of the
\* mapping sent is nil or a string; namespace variant: every value of the
\* mapping sent is a string.
C17_StringOrNil ==
  IF variant = "namespace"
  THEN \A k \in DOMAIN sent : sent[k].kind = "string"
  ELSE /\ \A k \in DOMAIN changes : changes[k].kind \in {"nil", "string"}
       /\ \A k \in DOMAIN sent : sent[k].kind \in {"nil", "string"}

C17_Witness ==
  /\ variant = "pod" /\ op = "Run" /\ storeCalls = 1
  /\ last["a"] = SetOp(IntVal(1), NoFn) /\ sent["a"] = StringVal("1")
  /\ last["b"] = SetOp(NilVal, NoFn) /\ sent["b"] = NilVal

\* C18: Set and SetWithFailureHandler are total: no call panics, and a value
\* whose kind is string is recorded and nil returned.
C18_SetTotal ==
  (op \in {"Set", "SetWithFailureHandler"}) =>
    /\ ret # Panic
    /\ (ReflectKind(arg) = "string" => ret = NoErr)

\* the steps of a call that read or write the changes map, or follow them
UnderLock == {"load", "assign", "read", "store", "handlers", "unlock"}

\* goroutine t is in a Run that has taken the lock
RunHoldsLock(t) == lock = t /\ (frame[t].op = "Run" \/ frame[t].nested)

\* C12: every variant: a goroutine reads or writes the changes map only while
\* it holds the lock, which one goroutine holds at a time; the mapping a Run
\* passes to the store is the one the pending changes give at the instant of
\* the store call, and the changes do not change while a Run holds the lock.
C12_RunExcludesWriters ==
  /\ [](\A t \in Threads : pc[t] \in UnderLock => lock = t)
  /\ [][/\ \A t \in Threads :
             (pc[t] = "store" /\ pc'[t] # "store") =>
               sent' = VariantRun(changes, NoErr).sent
        /\ (\E t \in Threads : RunHoldsLock(t)) => changes' = changes]_vars

C12_Witness ==
  /\ variant = "namespace"
  /\ lock = "t1" /\ frame["t1"].op = "Run" /\ pc["t1"] = "handlers"
  /\ DOMAIN sent = {"a"}
  /\ pc["t2"] = "lock" /\ frame["t2"].op = "SetWithFailureHandler"
  /\ frame["t2"].key = "b"

\* C15: every call a goroutine makes returns, with the lock released, also a
\* Set, Delete or Run that a failure handler makes on the same annotator.
C15_EveryCallReturns ==
  \A t \in Threads : (pc[t] # "idle") ~> (pc[t] = "idle" /\ lock # t)

\* the value a Run is to hold for key k, given the last successful Set on k
Supplied(k) ==
  IF variant = "namespace"
  THEN StringVal(RecordedString(last[k]))
  ELSE ExpectedEntry(last[k])

\* C11 as stated: every variant: after concurrent Set calls on disjoint keys
\* have returned, the batch the one Run builds holds every key a Set recorded,
\* with the value its Set supplied.
C11_NoLostUpdate ==
  \A t \in Threads :
    pc[t] = "store" =>
      \A k \in Touched :
        k \in DOMAIN frame[t].batch /\ frame[t].batch[k] = Supplied(k)

\* C11 as amended: every variant: after concurrent Set calls on disjoint keys
\* have returned, the batch the one Run builds holds every key a Set recorded,
\* with the value its Set supplied, except that the namespace variant leaves
\* out the keys observed with that very value.
C11_NoLostUpdateButDiff ==
  \A t \in Threads :
    pc[t] = "store" =>
      \A k \in Touched :
        IF variant = "namespace" /\ k \in DOMAIN observed
           /\ observed[k] = RecordedString(last[k])
        THEN k \notin DOMAIN frame[t].batch
        ELSE k \in DOMAIN frame[t].batch /\ frame[t].batch[k] = Supplied(k)

C11_Witness ==
  /\ variant = "node"
  /\ pc["t2"] = "store" /\ pc["t1"] = "idle"
  /\ last["a"] = SetOp(IntVal(1), NoFn)
  /\ last["b"] = SetOp(StringVal(""), "f1")
  /\ frame["t2"].batch = [k \in Keys |-> IF k = "a" THEN StringVal("1") ELSE StringVal("")]

====
